---- MODULE Spec2Model ----
(***************************************************************************)
(* Model of the Zephyr UUID utility library (lib/uuid/uuid.c and its       *)
(* public header include/zephyr/sys/uuid.h).                               *)
(*                                                                         *)
(* A caller picks one library operation and its arguments; the operation   *)
(* runs (step by step where it has loops or fallible external calls) and   *)
(* reaches pc = "done" with its return value in ret and its output in mem. *)
(* Bytes and characters are integers 0..255 (characters are ASCII codes);  *)
(* arrays are functions indexed from 0, as in C.                           *)
(***************************************************************************)
EXTENDS Integers, Sequences, FiniteSets, TLC

(***************************************************************************)
(* Program constants.                                                      *)
(***************************************************************************)
UUID_SIZE == 16
UUID_STR_LEN == 37
UUID_BASE64_LEN == 25
UUID_BASE64URL_LEN == 23

UUID_STR_POSITION_FIRST_HYPHEN == 8
UUID_STR_POSITION_SECOND_HYPHEN == 13
UUID_STR_POSITION_THIRD_HYPHEN == 18
UUID_STR_POSITION_FOURTH_HYPHEN == 23

UUID_POSITION_VERSION == 6
UUID_OFFSET_VERSION == 4
UUID_MASK_VERSION == 240
UUID_POSITION_VARIANT == 8
UUID_OFFSET_VARIANT == 6
UUID_MASK_VARIANT == 192

UUID_V4_VERSION == 4
UUID_V4_VARIANT == 2
UUID_V5_VERSION == 5
UUID_V5_VARIANT == 2

\* errno values returned (negated) by the library
EINVAL == 22
ENOMEM == 12
ENOTSUP == 134

\* mbedTLS message-digest status codes
MBEDTLS_ERR_MD_BAD_INPUT_DATA == -20736
MBEDTLS_ERR_MD_ALLOC_FAILED == -20864
\* status codes the switch of uuid_generate_v5 does not name
MBEDTLS_ERR_MD_FEATURE_UNAVAILABLE == -20608
MBEDTLS_ERR_PLATFORM_HW_ACCEL_FAILED == -112

\* sha_1_bytes: size of the SHA-1 digest
sha_1_bytes == 20

\* characters the code names
CH_HYPHEN == 45
CH_PLUS == 43
CH_SLASH == 47
CH_UNDERSCORE == 95
CH_NUL == 0

(***************************************************************************)
(* Bounds of the model.                                                    *)
(***************************************************************************)
\* UUID sample values are generated from the seeds 0..MaxSeed
MaxSeed == 255
\* namespaces of uuid_generate_v5 come from the seeds 0..MaxNsSeed
MaxNsSeed == 5
\* longest data buffer hashed by uuid_generate_v5
MaxDataLen == 3
\* size of the modelled memory region that starts at the out pointer
ArenaLen == 40
\* malformed strings are derived from the sample strings of seeds 0..MaxBadSeed
MaxBadSeed == 1

Byte == 0..255
UuidIdx == 0..(UUID_SIZE - 1)
ArenaIdx == 0..(ArenaLen - 1)

(***************************************************************************)
(* 8-bit bitwise arithmetic.                                               *)
(***************************************************************************)
RECURSIVE BitAndN(_, _, _)
BitAndN(a, b, n) ==
    IF n = 0 THEN 0
    ELSE (IF a % 2 = 1 /\ b % 2 = 1 THEN 1 ELSE 0)
         + 2 * BitAndN(a \div 2, b \div 2, n - 1)

RECURSIVE BitOrN(_, _, _)
BitOrN(a, b, n) ==
    IF n = 0 THEN 0
    ELSE (IF a % 2 = 1 \/ b % 2 = 1 THEN 1 ELSE 0)
         + 2 * BitOrN(a \div 2, b \div 2, n - 1)

RECURSIVE Pow2(_)
Pow2(n) == IF n = 0 THEN 1 ELSE 2 * Pow2(n - 1)

BitAnd8(a, b) == BitAndN(a, b, 8)
BitOr8(a, b) == BitOrN(a, b, 8)
\* ~m restricted to the 8 bits a uint8_t keeps
BitNot8(m) == 255 - m
\* (uint8_t)(v << n)
Shl8(v, n) == (v * Pow2(n)) % 256
\* v >> n
Shr(v, n) == v \div Pow2(n)

(***************************************************************************)
(* Helpers of uuid.c and the library routines it calls.                    *)
(***************************************************************************)
\* an overwrite_uuid_version_and_variant that sets the fields without clearing
\* them first
overwrite_without_clear(uuid, version, variant) ==
    [uuid EXCEPT
       ![UUID_POSITION_VERSION] = BitOr8(@, Shl8(version, UUID_OFFSET_VERSION)),
       ![UUID_POSITION_VARIANT] = BitOr8(@, Shl8(variant, UUID_OFFSET_VARIANT))]

\* uuid.c: overwrite_uuid_version_and_variant, on an array holding a UUID in
\* its first 16 cells
overwrite_uuid_version_and_variant(uuid, version, variant) ==
    LET cleared == [uuid EXCEPT
                      ![UUID_POSITION_VERSION] = BitAnd8(@, BitNot8(UUID_MASK_VERSION)),
                      ![UUID_POSITION_VARIANT] = BitAnd8(@, BitNot8(UUID_MASK_VARIANT))]
    IN  [cleared EXCEPT
           ![UUID_POSITION_VERSION] = BitOr8(@, Shl8(version, UUID_OFFSET_VERSION)),
           ![UUID_POSITION_VARIANT] = BitOr8(@, Shl8(variant, UUID_OFFSET_VARIANT))]

\* a should_be_hyphen whose last hyphen position is off by one
should_be_hyphen_off_by_one(position) ==
    position \in {UUID_STR_POSITION_FIRST_HYPHEN, UUID_STR_POSITION_SECOND_HYPHEN,
                  UUID_STR_POSITION_THIRD_HYPHEN, UUID_STR_POSITION_FOURTH_HYPHEN + 1}

\* uuid.c: should_be_hyphen
should_be_hyphen(position) ==
    CASE position = UUID_STR_POSITION_FIRST_HYPHEN -> TRUE
      [] position = UUID_STR_POSITION_SECOND_HYPHEN -> TRUE
      [] position = UUID_STR_POSITION_THIRD_HYPHEN -> TRUE
      [] position = UUID_STR_POSITION_FOURTH_HYPHEN -> TRUE
      [] OTHER -> FALSE

\* <ctype.h> isxdigit in the C locale, on an ASCII character
isxdigit(c) ==
    \/ (c >= 48 /\ c <= 57)
    \/ (c >= 97 /\ c <= 102)
    \/ (c >= 65 /\ c <= 70)

\* a C string is a sequence of non-NUL characters; its terminator is implicit
strlen(str) == Len(str)
\* str[i] of a C string, the terminator included
CharAt(str, i) == IF i < Len(str) THEN str[i + 1] ELSE CH_NUL

\* zephyr/sys/util.h char2hex: the value of a hex digit, or -EINVAL
char2hex(c) ==
    IF c >= 48 /\ c <= 57 THEN c - 48
    ELSE IF c >= 97 /\ c <= 102 THEN c - 97 + 10
    ELSE IF c >= 65 /\ c <= 70 THEN c - 65 + 10
    ELSE -EINVAL

\* zephyr/sys/util.h hex2bin(hex, 2, buf, buflen) on the two characters c0, c1
\* and a destination cell holding old: the count of bytes produced (rc) and the
\* content of the destination cell afterwards (byte). The high nibble is stored
\* before the second character is looked at.
hex2bin(c0, c1, old, buflen) ==
    IF buflen < 1 THEN [rc |-> 0, byte |-> old]
    ELSE IF char2hex(c0) < 0 THEN [rc |-> 0, byte |-> old]
    ELSE IF char2hex(c1) < 0 THEN [rc |-> 0, byte |-> Shl8(char2hex(c0), 4)]
    ELSE [rc |-> 1, byte |-> (Shl8(char2hex(c0), 4) + char2hex(c1)) % 256]

\* the digits of "%02X"
HexDigit_upper(n) == IF n < 10 THEN 48 + n ELSE 65 + (n - 10)

\* printf "%02x": two lower-case hexadecimal digits, zero padded
HexDigit(n) == IF n < 10 THEN 48 + n ELSE 97 + (n - 10)
Fmt02x(b) == <<HexDigit(b \div 16), HexDigit(b % 16)>>

\* the format string of uuid_to_string: "x" stands for a "%02x" directive that
\* consumes the next argument, "-" for a literal hyphen
UuidFormat ==
    <<"x", "x", "x", "x", "-", "x", "x", "-", "x", "x", "-", "x", "x", "-",
      "x", "x", "x", "x", "x", "x">>

\* the text printf produces for the directives fmt[k..] with arguments
\* uuid[arg], uuid[arg + 1], ...
RECURSIVE Expand(_, _, _, _)
Expand(fmt, k, uuid, arg) ==
    IF k > Len(fmt) THEN <<>>
    ELSE IF fmt[k] = "x"
         THEN Fmt02x(uuid[arg]) \o Expand(fmt, k + 1, uuid, arg + 1)
         ELSE <<CH_HYPHEN>> \o Expand(fmt, k + 1, uuid, arg)

\* snprintf(out, size, ...): at most size - 1 characters of text, then a NUL,
\* stored from buf[0]; nothing is stored when size is 0
snprintf(buf, size, text) ==
    IF size = 0 THEN buf
    ELSE LET n == IF Len(text) < size - 1 THEN Len(text) ELSE size - 1
         IN  [i \in DOMAIN buf |->
                 IF i < n THEN text[i + 1]
                 ELSE IF i = n THEN CH_NUL
                 ELSE buf[i]]

\* memcpy(dst, src, n): src is indexed from 0
memcpy(dst, src, n) ==
    [i \in DOMAIN dst |-> IF i < n THEN src[i] ELSE dst[i]]

\* zephyr/sys/base64.h: the RFC 4648 alphabet
base64_enc_map ==
    [i \in 0..63 |->
        IF i < 26 THEN 65 + i
        ELSE IF i < 52 THEN 97 + (i - 26)
        ELSE IF i < 62 THEN 48 + (i - 52)
        ELSE IF i = 62 THEN CH_PLUS
        ELSE CH_SLASH]

\* the characters base64_encode produces for src[k..slen-1] (src indexed from 0)
RECURSIVE Base64Chars(_, _, _)
Base64Chars(src, k, slen) ==
    IF k >= slen THEN <<>>
    ELSE IF k + 3 <= slen THEN
        LET C1 == src[k]
            C2 == src[k + 1]
            C3 == src[k + 2]
        IN  << base64_enc_map[Shr(C1, 2) % 64],
               base64_enc_map[(BitAnd8(C1, 3) * 16 + Shr(C2, 4)) % 64],
               base64_enc_map[(BitAnd8(C2, 15) * 4 + Shr(C3, 6)) % 64],
               base64_enc_map[C3 % 64] >>
            \o Base64Chars(src, k + 3, slen)
    ELSE
        LET C1 == src[k]
            C2 == IF k + 1 < slen THEN src[k + 1] ELSE 0
        IN  << base64_enc_map[Shr(C1, 2) % 64],
               base64_enc_map[(BitAnd8(C1, 3) * 16 + Shr(C2, 4)) % 64],
               IF k + 1 < slen THEN base64_enc_map[(BitAnd8(C2, 15) * 4) % 64] ELSE 61,
               61 >>

\* base64_encode(dst, dlen, &olen, src, slen): dst afterwards. The encoding and
\* its terminator are stored only when dlen has room for both.
base64_encode(dst, dlen, src, slen) ==
    LET text == Base64Chars(src, 0, slen)
    IN  IF dlen < Len(text) + 1 THEN dst
        ELSE [i \in DOMAIN dst |->
                 IF i < Len(text) THEN text[i + 1]
                 ELSE IF i = Len(text) THEN CH_NUL
                 ELSE dst[i]]

(***************************************************************************)
(* The arguments a caller may pass.                                        *)
(***************************************************************************)
\* a C array (indexed from 0) from a tuple
FromSeq(sq) == [i \in 0..(Len(sq) - 1) |-> sq[i + 1]]

\* over the seeds 0..255 every byte value occurs at every index
SampleUuid(s) == [i \in UuidIdx |-> (s + 17 * i) % 256]

\* the UUIDs of tests/lib/uuid/src/main.c
first_uuid_v4 == FromSeq(<<68, 179, 95, 115, 207, 189, 67, 180, 143, 239, 202, 123, 174, 161, 55, 95>>)
second_uuid_v4 == FromSeq(<<111, 47, 212, 203, 148, 160, 65, 199, 141, 39, 134, 76, 107, 19, 184, 192>>)
third_uuid_v4 == FromSeq(<<143, 101, 219, 188, 88, 104, 64, 21, 133, 35, 137, 28, 192, 191, 250, 88>>)
first_uuid_v5 == FromSeq(<<5, 117, 165, 105, 81, 235, 87, 92, 175, 228, 206, 127, 192, 59, 205, 197>>)
\* the namespace of test_uuid_v5, 6ba7b810-9dad-11d1-80b4-00c04fd430c8
namespace_dns == FromSeq(<<107, 167, 184, 16, 157, 173, 17, 209, 128, 180, 0, 192, 79, 212, 48, 200>>)

\* the little-endian example of uuid.h, 33221100-5544-7766-8899-AABBCCDDEEFF
guid_le_example == FromSeq(<<51, 34, 17, 0, 85, 68, 119, 102, 136, 153, 170, 187, 204, 221, 238, 255>>)

TestVectors ==
    {first_uuid_v4, second_uuid_v4, third_uuid_v4, first_uuid_v5, namespace_dns,
     guid_le_example}

UuidValues == {SampleUuid(s) : s \in 0..MaxSeed} \cup TestVectors

Namespaces == {SampleUuid(s) : s \in 0..MaxNsSeed} \cup {namespace_dns}

\* data buffers of uuid_generate_v5: every byte string over DataBytes of at most
\* MaxDataLen bytes
DataBytes == {0, 119, 255}
DataBuffers == UNION {[1..n -> DataBytes] : n \in 0..MaxDataLen}

\* what the caller's buffer holds before the call
FillBytes == {0, 170}

\* strings handed to uuid_from_string
Canonical(u) == Expand(UuidFormat, 1, u, 0)
ToUpper(str) == [k \in 1..Len(str) |-> IF str[k] >= 97 /\ str[k] <= 122 THEN str[k] - 32 ELSE str[k]]
Replace(str, p, c) == [k \in 1..Len(str) |-> IF k = p + 1 THEN c ELSE str[k]]

\* '-', ' ', '/', '0', ':', '@', 'G', 'L', '`', 'g', 'x', DEL
OddChars == {45, 32, 47, 48, 58, 64, 71, 76, 96, 103, 120, 127}

\* the strings of test_uuid_from_string_errors
uuid_string_too_short == <<52, 52, 98, 51, 53, 102, 55, 51, 45, 99, 102, 98, 100, 45, 52, 51, 98, 52, 45, 56, 102, 101, 102, 45, 99, 97, 55, 98, 97, 101, 97, 49, 51, 55, 53>>
uuid_string_too_long == <<52, 52, 98, 51, 53, 102, 55, 51, 45, 99, 102, 98, 100, 45, 52, 51, 98, 52, 45, 56, 102, 101, 102, 45, 99, 97, 55, 98, 97, 101, 97, 49, 51, 55, 53, 102, 48>>
uuid_string_missing_hyphen == <<52, 52, 98, 51, 53, 102, 55, 51, 45, 99, 102, 98, 100, 45, 52, 51, 98, 52, 45, 56, 102, 101, 102, 48, 99, 97, 55, 98, 97, 101, 97, 49, 51, 55, 53, 102>>
uuid_string_non_hex_digit == <<52, 52, 98, 51, 53, 102, 55, 51, 45, 99, 102, 76, 100, 45, 52, 51, 98, 52, 45, 56, 102, 101, 102, 45, 99, 97, 55, 98, 97, 101, 97, 49, 51, 55, 53, 102>>

WellFormedStrings ==
    {Canonical(u) : u \in UuidValues} \cup {ToUpper(Canonical(u)) : u \in UuidValues}

BadSeedStrings == {Canonical(SampleUuid(s)) : s \in 0..MaxBadSeed}

\* one character replaced, one character dropped, characters appended
DamagedStrings ==
    {Replace(b, p, c) : b \in BadSeedStrings, p \in 0..(UUID_STR_LEN - 2), c \in OddChars}
    \cup {SubSeq(b, 1, n) : b \in BadSeedStrings, n \in {0, 1, UUID_STR_LEN - 3, UUID_STR_LEN - 2}}
    \cup {b \o <<48>> : b \in BadSeedStrings}
    \cup {b \o <<45, 48>> : b \in BadSeedStrings}
    \cup {uuid_string_too_short, uuid_string_too_long, uuid_string_missing_hyphen,
          uuid_string_non_hex_digit}

StringInputs == WellFormedStrings \cup DamagedStrings

\* capacities of the text buffer a caller may hand in, around the required n
TextCaps(n) == {n - 1, n, n + 1}

NoUuid == [i \in UuidIdx |-> 0]
NoDigest == [i \in 0..(sha_1_bytes - 1) |-> 0]

(***************************************************************************)
(* State.                                                                  *)
(***************************************************************************)
VARIABLES
    pc,             \* "idle", "done", or the place reached inside the running call
    op,             \* the operation called last
    ret,            \* its return value, meaningful when pc = "done"
    uuid_arg,       \* the UUID (or 16-byte buffer) passed in: namespace, src, data, uuid
    uuid_arg_null,  \* whether that pointer is NULL
    input,          \* the string passed to uuid_from_string
    input_null,     \* whether that pointer is NULL
    data,           \* the data buffer passed to uuid_generate_v5
    out_null,       \* whether the output pointer is NULL
    cap,            \* how many cells from the output pointer belong to the caller's buffer
    mem,            \* the memory from the output pointer on
    mem0,           \* that memory when the call was made
    rand,           \* the bytes sys_rand_get delivers
    ctx,            \* the mbedtls_md_context_t: "none", "init", "setup", "freed"
    fed,            \* the bytes hashed so far
    mbedtls_err,    \* uuid_generate_v5: mbedtls_err
    sha_result,     \* uuid_generate_v5: sha_result
    input_idx,      \* uuid_from_string: input_idx
    out_idx         \* uuid_from_string: out_idx

vars == <<pc, op, ret, uuid_arg, uuid_arg_null, input, input_null, data, out_null, cap,
          mem, mem0, rand, ctx, fed, mbedtls_err, sha_result, input_idx, out_idx>>

\* the caller's memory before a call
Blank(fill) == [i \in ArenaIdx |-> fill]

Init ==
    /\ pc = "idle"
    /\ op = "none"
    /\ ret = 0
    /\ uuid_arg = NoUuid
    /\ uuid_arg_null = FALSE
    /\ input = <<>>
    /\ input_null = FALSE
    /\ data = <<>>
    /\ out_null = FALSE
    /\ cap = UUID_SIZE
    /\ mem = Blank(0)
    /\ mem0 = Blank(0)
    /\ rand = NoUuid
    /\ ctx = "none"
    /\ fed = <<>>
    /\ mbedtls_err = 0
    /\ sha_result = NoDigest
    /\ input_idx = 0
    /\ out_idx = 0

\* A call is made: the caller is between calls, chooses the output buffer and
\* what it holds, and the callee's locals do not exist yet.
Enter(o, outNull, c, fill) ==
    /\ pc = "idle"
    /\ op' = o
    /\ out_null' = outNull
    /\ cap' = c
    /\ mem0' = Blank(fill)
    /\ ctx' = "none"
    /\ fed' = <<>>
    /\ mbedtls_err' = 0
    /\ sha_result' = NoDigest
    /\ input_idx' = 0
    /\ out_idx' = 0

\* the arguments of a call that takes one UUID-shaped input (or none)
UuidArgs(u, uNull) ==
    /\ uuid_arg' = u
    /\ uuid_arg_null' = uNull
    /\ input' = <<>>
    /\ input_null' = FALSE
    /\ data' = <<>>

Locals == <<ctx, fed, mbedtls_err, sha_result, input_idx, out_idx>>
Args == <<op, uuid_arg, uuid_arg_null, input, input_null, data, out_null, cap, mem0, rand>>

(***************************************************************************)
(* uuid_generate_v4                                                        *)
(***************************************************************************)
\* sys_rand_get(dst, n) with the random source delivering r
sys_rand_get(dst, n, r) == [i \in DOMAIN dst |-> IF i < n THEN r[i] ELSE dst[i]]

uuid_generate_v4 ==
    /\ pc = "idle"
    /\ \E outNull \in BOOLEAN, fill \in FillBytes, r \in UuidValues :
        /\ Enter("uuid_generate_v4", outNull, UUID_SIZE, fill)
        /\ UuidArgs(NoUuid, FALSE)
        /\ rand' = r
        /\ IF outNull
           THEN /\ ret' = -EINVAL
                /\ mem' = mem0'
           ELSE /\ mem' = overwrite_uuid_version_and_variant(
                              sys_rand_get(mem0', UUID_SIZE, r),
                              UUID_V4_VERSION, UUID_V4_VARIANT)
                /\ ret' = 0
        /\ pc' = "done"

(***************************************************************************)
(* uuid_generate_v5                                                        *)
(***************************************************************************)
\* what an mbedtls_md_* call may return
MdStatus ==
    {0, MBEDTLS_ERR_MD_BAD_INPUT_DATA, MBEDTLS_ERR_MD_ALLOC_FAILED,
     MBEDTLS_ERR_MD_FEATURE_UNAVAILABLE, MBEDTLS_ERR_PLATFORM_HW_ACCEL_FAILED}

\* The digest of the hashed bytes. SHA-1 itself is outside the library; the
\* model keeps what the library relies on: 20 bytes that are a function of the
\* byte string hashed, sensitive to its content, order and length.
RECURSIVE Absorb(_, _, _)
Absorb(h, msg, k) ==
    IF k > Len(msg) THEN h ELSE Absorb((h * 31 + msg[k] + 1) % 256, msg, k + 1)

Digest(msg) == [i \in 0..(sha_1_bytes - 1) |-> Absorb((i * 37 + Len(msg)) % 256, msg, 1)]

\* the bytes buf[0..n-1] as a byte string
Bytes(buf, n) == [k \in 1..n |-> buf[k - 1]]

\* lines 82-86: the call and its argument check
v5_enter ==
    /\ pc = "idle"
    /\ \E outNull \in BOOLEAN, nsNull \in BOOLEAN, fill \in FillBytes,
       ns \in Namespaces, d \in DataBuffers :
        /\ Enter("uuid_generate_v5", outNull, UUID_SIZE, fill)
        /\ uuid_arg' = ns
        /\ uuid_arg_null' = nsNull
        /\ input' = <<>>
        /\ input_null' = FALSE
        /\ data' = d
        /\ rand' = NoUuid
        /\ mem' = mem0'
        /\ IF outNull \/ nsNull
           THEN /\ ret' = -EINVAL
                /\ pc' = "done"
           ELSE /\ ret' = 0
                /\ pc' = "v5_init"

\* lines 87-93: the locals and mbedtls_md_init
v5_init ==
    /\ pc = "v5_init"
    /\ ctx' = "init"
    /\ pc' = "v5_setup"
    /\ UNCHANGED <<ret, mem, fed, mbedtls_err, sha_result, input_idx, out_idx>>
    /\ UNCHANGED Args

\* lines 94-105: mbedtls_md_setup and the switch on its status
v5_setup ==
    \E e \in MdStatus :
        /\ pc = "v5_setup"
        /\ mbedtls_err' = e
        /\ CASE e = 0 ->
                  /\ ctx' = "setup"
                  /\ pc' = "v5_starts"
                  /\ ret' = ret
             [] e = MBEDTLS_ERR_MD_BAD_INPUT_DATA ->
                  /\ ctx' = ctx
                  /\ pc' = "done"
                  /\ ret' = -EINVAL
             [] e = MBEDTLS_ERR_MD_ALLOC_FAILED ->
                  /\ ctx' = ctx
                  /\ pc' = "done"
                  /\ ret' = -ENOMEM
             [] OTHER ->
                  /\ ctx' = ctx
                  /\ pc' = "done"
                  /\ ret' = -ENOTSUP
        /\ UNCHANGED <<mem, fed, sha_result, input_idx, out_idx>>
        /\ UNCHANGED Args

\* the shape of lines 106-125: a call whose status is only compared with 0
\* (next: where to go on, hashed: the bytes hashed after it, digest: sha_result after it)
MdStep(here, next, hashed, digest) ==
    \E e \in MdStatus :
        /\ pc = here
        /\ mbedtls_err' = e
        /\ IF e # 0
           THEN /\ pc' = "done"
                /\ ret' = -EINVAL
                /\ fed' = fed
                /\ sha_result' = sha_result
           ELSE /\ pc' = next
                /\ ret' = ret
                /\ fed' = hashed
                /\ sha_result' = digest
        /\ UNCHANGED <<mem, ctx, input_idx, out_idx>>
        /\ UNCHANGED Args

\* lines 106-110: mbedtls_md_starts
v5_starts == MdStep("v5_starts", "v5_update_namespace", <<>>, sha_result)

\* lines 111-115: mbedtls_md_update(&ctx, namespace, UUID_SIZE)
v5_update_namespace ==
    MdStep("v5_update_namespace", "v5_update_data",
           fed \o Bytes(uuid_arg, UUID_SIZE), sha_result)

\* lines 116-120: mbedtls_md_update(&ctx, data, data_size)
v5_update_data == MdStep("v5_update_data", "v5_finish", fed \o data, sha_result)

\* lines 121-125: mbedtls_md_finish(&ctx, sha_result)
v5_finish == MdStep("v5_finish", "v5_free", fed, Digest(fed))

\* a variant of lines 126-135 whose copy loop stops one byte short, so that
\* out->val[15] keeps what the caller's buffer held before the call
v5_free_short_copy ==
    /\ pc = "v5_free"
    /\ ctx' = "freed"
    /\ mem' = overwrite_uuid_version_and_variant(
                  [i \in ArenaIdx |-> IF i < UUID_SIZE - 1 THEN sha_result[i] ELSE mem[i]],
                  UUID_V5_VERSION, UUID_V5_VARIANT)
    /\ ret' = 0
    /\ pc' = "done"
    /\ UNCHANGED <<fed, mbedtls_err, sha_result, input_idx, out_idx>>
    /\ UNCHANGED Args

\* lines 126-135: mbedtls_md_free, the copy of the digest, the stamping
v5_free ==
    /\ pc = "v5_free"
    /\ ctx' = "freed"
    /\ mem' = overwrite_uuid_version_and_variant(
                  [i \in ArenaIdx |-> IF i < UUID_SIZE THEN sha_result[i] ELSE mem[i]],
                  UUID_V5_VERSION, UUID_V5_VARIANT)
    /\ ret' = 0
    /\ pc' = "done"
    /\ UNCHANGED <<fed, mbedtls_err, sha_result, input_idx, out_idx>>
    /\ UNCHANGED Args

(***************************************************************************)
(* uuid_copy, uuid_from_buffer, uuid_from_buffer_le, uuid_to_buffer        *)
(***************************************************************************)
\* An operation that checks its two pointers and then stores 16 bytes computed
\* from the input: stored is the output memory afterwards.
CopyLike(o, outNull, uNull, fill, u, stored) ==
    /\ Enter(o, outNull, UUID_SIZE, fill)
    /\ UuidArgs(u, uNull)
    /\ rand' = NoUuid
    /\ IF outNull \/ uNull
       THEN /\ ret' = -EINVAL
            /\ mem' = mem0'
       ELSE /\ mem' = stored
            /\ ret' = 0
    /\ pc' = "done"

\* uuid_copy, line 144
uuid_copy_store(src, dst) == memcpy(dst, src, UUID_SIZE)

\* uuid_copy, lines 139-146
uuid_copy ==
    /\ pc = "idle"
    /\ \E outNull \in BOOLEAN, uNull \in BOOLEAN, fill \in FillBytes, u \in UuidValues :
        CopyLike("uuid_copy", outNull, uNull, fill, u, uuid_copy_store(u, Blank(fill)))

\* a big-endian import that reverses the 16 bytes
uuid_from_buffer_store_reversed(buf, out) ==
    [i \in DOMAIN out |-> IF i < UUID_SIZE THEN buf[UUID_SIZE - 1 - i] ELSE out[i]]

\* uuid_from_buffer, line 153
uuid_from_buffer_store(buf, out) == memcpy(out, buf, UUID_SIZE)

\* uuid_from_buffer, lines 148-155
uuid_from_buffer ==
    /\ pc = "idle"
    /\ \E outNull \in BOOLEAN, uNull \in BOOLEAN, fill \in FillBytes, u \in UuidValues :
        CopyLike("uuid_from_buffer", outNull, uNull, fill, u,
                 uuid_from_buffer_store(u, Blank(fill)))

\* uuid_from_buffer_le: the COM GUID layout documented in uuid.h, a 32-bit and
\* two 16-bit little-endian fields followed by 8 bytes in order
uuid_from_buffer_le_store(buf, out) ==
    [i \in DOMAIN out |->
        CASE i < 4 -> buf[3 - i]
          [] i >= 4 /\ i < 6 -> buf[9 - i]
          [] i >= 6 /\ i < 8 -> buf[13 - i]
          [] i >= 8 /\ i < UUID_SIZE -> buf[i]
          [] OTHER -> out[i]]

uuid_from_buffer_le ==
    /\ pc = "idle"
    /\ \E outNull \in BOOLEAN, uNull \in BOOLEAN, fill \in FillBytes, u \in UuidValues :
        CopyLike("uuid_from_buffer_le", outNull, uNull, fill, u,
                 uuid_from_buffer_le_store(u, Blank(fill)))

\* uuid_to_buffer, lines 198-205: the UUID is passed by value, only buff can be NULL
uuid_to_buffer_store(val, buff) == memcpy(buff, val, UUID_SIZE)

uuid_to_buffer ==
    /\ pc = "idle"
    /\ \E outNull \in BOOLEAN, fill \in FillBytes, u \in UuidValues :
        /\ Enter("uuid_to_buffer", outNull, UUID_SIZE, fill)
        /\ UuidArgs(u, FALSE)
        /\ rand' = NoUuid
        /\ IF outNull
           THEN /\ ret' = -EINVAL
                /\ mem' = mem0'
           ELSE /\ mem' = uuid_to_buffer_store(u, mem0')
                /\ ret' = 0
        /\ pc' = "done"

(***************************************************************************)
(* uuid_from_string                                                        *)
(***************************************************************************)
\* a validation loop that forgets the check of the hexadecimal digits
RECURSIVE Scan_hyphens_only(_, _)
Scan_hyphens_only(str, i) ==
    IF ~(i < UUID_STR_LEN - 1) THEN TRUE
    ELSE IF should_be_hyphen(i)
         THEN IF CharAt(str, i) # CH_HYPHEN THEN FALSE ELSE Scan_hyphens_only(str, i + 1)
         ELSE Scan_hyphens_only(str, i + 1)

\* lines 162-175: the validation loop from position i on; TRUE when it runs to
\* its end, FALSE when it returns -EINVAL
RECURSIVE Scan(_, _)
Scan(str, i) ==
    IF ~(i < UUID_STR_LEN - 1) THEN TRUE
    ELSE IF should_be_hyphen(i)
         THEN IF CharAt(str, i) # CH_HYPHEN THEN FALSE ELSE Scan(str, i + 1)
         ELSE IF ~isxdigit(CharAt(str, i)) THEN FALSE ELSE Scan(str, i + 1)

\* lines 157-179: the argument check, the validation loop, the decoder's locals
from_string_enter ==
    /\ pc = "idle"
    /\ \E outNull \in BOOLEAN, strNull \in BOOLEAN, fill \in FillBytes, str \in StringInputs :
        /\ Enter("uuid_from_string", outNull, UUID_SIZE, fill)
        /\ uuid_arg' = NoUuid
        /\ uuid_arg_null' = FALSE
        /\ input' = IF strNull THEN <<>> ELSE str
        /\ input_null' = strNull
        /\ data' = <<>>
        /\ rand' = NoUuid
        /\ mem' = mem0'
        /\ IF strNull \/ strlen(str) + 1 # UUID_STR_LEN \/ outNull
           THEN /\ ret' = -EINVAL
                /\ pc' = "done"
           ELSE IF ~Scan(str, 0)
           THEN /\ ret' = -EINVAL
                /\ pc' = "done"
           ELSE /\ ret' = 0
                /\ pc' = "from_string_decode"

\* UUID_SIZE - out_idx in unsigned arithmetic: a difference below zero wraps to
\* a huge positive value (kept within the integers of the checker)
UnsignedSub(a, b) == IF a >= b THEN a - b ELSE 2147483647 - (b - a) + 1

\* a loop body that forgets out_idx++
from_string_iteration_same_cell(str, inIdx, outIdx, m) ==
    IF should_be_hyphen(inIdx)
    THEN [input_idx |-> inIdx + 1, out_idx |-> outIdx, mem |-> m, failed |-> FALSE]
    ELSE LET r == hex2bin(CharAt(str, inIdx), CharAt(str, inIdx + 1),
                          m[outIdx], UnsignedSub(UUID_SIZE, outIdx))
         IN  [input_idx |-> inIdx + 2, out_idx |-> outIdx,
              mem |-> [m EXCEPT ![outIdx] = r.byte], failed |-> r.rc # 1]

\* a variant of lines 182-193 that advances the read position by one
\* character, not two, after a converted pair
from_string_iteration_single_step(str, inIdx, outIdx, m) ==
    IF should_be_hyphen(inIdx)
    THEN [input_idx |-> inIdx + 1, out_idx |-> outIdx, mem |-> m, failed |-> FALSE]
    ELSE LET r == hex2bin(CharAt(str, inIdx), CharAt(str, inIdx + 1),
                          m[outIdx], UnsignedSub(UUID_SIZE, outIdx))
         IN  IF r.rc # 1
             THEN [input_idx |-> inIdx, out_idx |-> outIdx,
                   mem |-> [m EXCEPT ![outIdx] = r.byte], failed |-> TRUE]
             ELSE [input_idx |-> inIdx + 1, out_idx |-> outIdx + 1,
                   mem |-> [m EXCEPT ![outIdx] = r.byte], failed |-> FALSE]

\* lines 182-193: the body of the decoding loop at (inIdx, outIdx) on output
\* memory m: the indices and the memory afterwards, and whether the body
\* returned -EINVAL
from_string_iteration(str, inIdx, outIdx, m) ==
    IF should_be_hyphen(inIdx)
    THEN [input_idx |-> inIdx + 1, out_idx |-> outIdx, mem |-> m, failed |-> FALSE]
    ELSE LET r == hex2bin(CharAt(str, inIdx), CharAt(str, inIdx + 1),
                          m[outIdx], UnsignedSub(UUID_SIZE, outIdx))
         IN  IF r.rc # 1
             THEN [input_idx |-> inIdx, out_idx |-> outIdx,
                   mem |-> [m EXCEPT ![outIdx] = r.byte], failed |-> TRUE]
             ELSE [input_idx |-> inIdx + 2, out_idx |-> outIdx + 1,
                   mem |-> [m EXCEPT ![outIdx] = r.byte], failed |-> FALSE]

\* lines 181-195: one evaluation of the while condition and, when it holds,
\* one iteration of the decoding loop
from_string_decode ==
    /\ pc = "from_string_decode"
    /\ IF ~(input_idx < UUID_STR_LEN - 1)
       THEN /\ ret' = 0
            /\ pc' = "done"
            /\ UNCHANGED <<mem, input_idx, out_idx>>
       ELSE LET n == from_string_iteration(input, input_idx, out_idx, mem)
            IN  /\ mem' = n.mem
                /\ input_idx' = n.input_idx
                /\ out_idx' = n.out_idx
                /\ IF n.failed
                   THEN /\ ret' = -EINVAL
                        /\ pc' = "done"
                   ELSE UNCHANGED <<ret, pc>>
    /\ UNCHANGED <<ctx, fed, mbedtls_err, sha_result>>
    /\ UNCHANGED Args

(***************************************************************************)
(* uuid_to_string, uuid_to_base64, uuid_to_base64url                       *)
(***************************************************************************)
\* An operation that checks its two pointers and then stores text: the caller's
\* buffer has capacity c, stored is the memory afterwards.
TextLike(o, outNull, uNull, c, fill, u, stored) ==
    /\ Enter(o, outNull, c, fill)
    /\ UuidArgs(u, uNull)
    /\ rand' = NoUuid
    /\ IF uNull \/ outNull
       THEN /\ ret' = -EINVAL
            /\ mem' = mem0'
       ELSE /\ mem' = stored
            /\ ret' = 0
    /\ pc' = "done"

\* uuid_to_string, lines 212-215
uuid_to_string_store(uuid, out) ==
    snprintf(out, UUID_STR_LEN, Expand(UuidFormat, 1, uuid, 0))

\* uuid_to_string, lines 207-217
uuid_to_string ==
    /\ pc = "idle"
    /\ \E outNull \in BOOLEAN, uNull \in BOOLEAN, c \in TextCaps(UUID_STR_LEN),
       fill \in FillBytes, u \in UuidValues :
        TextLike("uuid_to_string", outNull, uNull, c, fill, u,
                 uuid_to_string_store(u, Blank(fill)))

\* uuid_to_base64, line 228
uuid_to_base64_store(uuid, out) == base64_encode(out, UUID_BASE64_LEN, uuid, UUID_SIZE)

\* uuid_to_base64, lines 220-230
uuid_to_base64 ==
    /\ pc = "idle"
    /\ \E outNull \in BOOLEAN, uNull \in BOOLEAN, c \in TextCaps(UUID_BASE64_LEN),
       fill \in FillBytes, u \in UuidValues :
        TextLike("uuid_to_base64", outNull, uNull, c, fill, u,
                 uuid_to_base64_store(u, Blank(fill)))

\* a loop that replaces '+' and forgets '/'
UrlSafe_plus_only(buf, n) ==
    [i \in DOMAIN buf |-> IF i < n /\ buf[i] = CH_PLUS THEN CH_HYPHEN ELSE buf[i]]

\* uuid_to_base64url, lines 244-251: the loop over the first n characters
UrlSafe(buf, n) ==
    [i \in DOMAIN buf |->
        IF i < n
        THEN LET c1 == IF buf[i] = CH_PLUS THEN CH_HYPHEN ELSE buf[i]
             IN  IF c1 = CH_SLASH THEN CH_UNDERSCORE ELSE c1
        ELSE buf[i]]

\* uuid_to_base64url, lines 239-253
uuid_to_base64url_store(uuid, out) ==
    LET zeroed == [i \in 0..(UUID_BASE64_LEN - 1) |-> 0]
        uuid_base64 == UrlSafe(base64_encode(zeroed, UUID_BASE64_LEN, uuid, UUID_SIZE),
                               UUID_BASE64URL_LEN - 1)
    IN  [memcpy(out, uuid_base64, UUID_BASE64URL_LEN - 1)
            EXCEPT ![UUID_BASE64URL_LEN - 1] = 0]

\* uuid_to_base64url, lines 232-255
uuid_to_base64url ==
    /\ pc = "idle"
    /\ \E outNull \in BOOLEAN, uNull \in BOOLEAN, c \in TextCaps(UUID_BASE64URL_LEN),
       fill \in FillBytes, u \in UuidValues :
        TextLike("uuid_to_base64url", outNull, uNull, c, fill, u,
                 uuid_to_base64url_store(u, Blank(fill)))

(***************************************************************************)
(* The library as a whole.                                                 *)
(***************************************************************************)
\* the caller has looked at the result and is ready for its next call
caller_continue ==
    /\ pc = "done"
    /\ pc' = "idle"
    /\ op' = "none"
    /\ ret' = 0
    /\ UuidArgs(NoUuid, FALSE)
    /\ out_null' = FALSE
    /\ cap' = UUID_SIZE
    /\ mem' = Blank(0)
    /\ mem0' = Blank(0)
    /\ rand' = NoUuid
    /\ ctx' = "none"
    /\ fed' = <<>>
    /\ mbedtls_err' = 0
    /\ sha_result' = NoDigest
    /\ input_idx' = 0
    /\ out_idx' = 0

Next ==
    \/ caller_continue
    \/ uuid_generate_v4
    \/ v5_enter
    \/ v5_init
    \/ v5_setup
    \/ v5_starts
    \/ v5_update_namespace
    \/ v5_update_data
    \/ v5_finish
    \/ v5_free
    \/ uuid_copy
    \/ uuid_from_buffer
    \/ uuid_from_buffer_le
    \/ uuid_to_buffer
    \/ from_string_enter
    \/ from_string_decode
    \/ uuid_to_string
    \/ uuid_to_base64
    \/ uuid_to_base64url

Spec == Init /\ [][Next]_vars

(***************************************************************************)
(* Properties.                                                             *)
(***************************************************************************)
Returned(o) == pc = "done" /\ op = o

\* the bytes of buf[0..15] equal those of the UUID u
SameUuid(buf, u) == \A i \in UuidIdx : buf[i] = u[i]

\* C1: when uuid_generate_v5 returns, a hashing context that was initialised
\* (mbedtls_md_init, mbedtls_md_setup) has been released with mbedtls_md_free,
\* on the success path and on every error path.
C1_ContextReleasedOnReturn ==
    Returned("uuid_generate_v5") => ctx \in {"none", "freed"}

\* the return value that goes with the status e of a hash primitive
C2_Classified(e) ==
    CASE e = MBEDTLS_ERR_MD_BAD_INPUT_DATA -> -EINVAL
      [] e = MBEDTLS_ERR_MD_ALLOC_FAILED -> -ENOMEM
      [] OTHER -> -ENOTSUP

\* C2: uuid_generate_v5 classifies the status of every hash primitive three
\* ways: bad input (and a NULL namespace or out) gives -EINVAL, an allocation
\* failure gives -ENOMEM, any other status gives -ENOTSUP and never -EINVAL.
C2_ThreeWayClassification ==
    Returned("uuid_generate_v5") =>
        /\ (out_null \/ uuid_arg_null) => ret = -EINVAL
        /\ mbedtls_err # 0 => ret = C2_Classified(mbedtls_err)

\* C3: whenever an operation returns an error, the memory at the output
\* pointer holds exactly the bytes it held when the call was made.
C3_NoWriteOnError ==
    (pc = "done" /\ ret # 0) => mem = mem0

\* C3 witness: uuid_from_string has rejected a 36-character string whose only
\* flaw is its last character, with a buffer to write to at hand
C3_Witness ==
    /\ Returned("uuid_from_string")
    /\ ret = -EINVAL
    /\ ~out_null
    /\ Len(input) = UUID_STR_LEN - 1
    /\ ~isxdigit(input[UUID_STR_LEN - 1])
    /\ \A k \in 1..(UUID_STR_LEN - 2) : isxdigit(input[k]) \/ input[k] = CH_HYPHEN
    /\ mem0[0] # 0

\* the characters 0-9, a-f, A-F
C4_HexChars == (48..57) \cup (97..102) \cup (65..70)

\* a string of the canonical form: 36 characters, '-' at 8, 13, 18, 23, hexadecimal digits elsewhere
C4_WellFormed(str) ==
    /\ Len(str) = 36
    /\ \A p \in 0..35 :
          IF p \in {8, 13, 18, 23} THEN str[p + 1] = 45 ELSE str[p + 1] \in C4_HexChars

\* C4: uuid_from_string returns 0 exactly for a non-NULL string of 36
\* characters with '-' at positions 8, 13, 18, 23 and a hexadecimal digit of
\* either case at the other 32 positions, and -EINVAL otherwise; whatever
\* version and variant the digits spell is accepted. (Stated for calls that
\* pass an output UUID; the second conjunct holds for a NULL one as well.)
C4_AcceptsExactlyWellFormed ==
    Returned("uuid_from_string") =>
        /\ ret \in {0, -EINVAL}
        /\ ret = 0 => (~input_null /\ C4_WellFormed(input))
        /\ (~input_null /\ ~out_null /\ C4_WellFormed(input)) => ret = 0

\* C4 witness: an accepted string with upper-case digits whose version digit
\* is neither 4 nor 5 and whose variant digit is outside 8..b
C4_Witness ==
    /\ Returned("uuid_from_string")
    /\ ret = 0
    /\ \E k \in 1..Len(input) : input[k] \in 65..70
    /\ input[15] \notin {52, 53}
    /\ input[20] \notin {56, 57, 65, 66, 97, 98}

\* out is src with the version in the high nibble of byte 6 and binary 10 in the top bits of byte 8
C5_Stamped(version, src) ==
    /\ mem[6] \div 16 = version
    /\ mem[8] \div 64 = 2
    /\ mem[6] % 16 = src[6] % 16
    /\ mem[8] % 64 = src[8] % 64
    /\ \A i \in UuidIdx \ {6, 8} : mem[i] = src[i]

\* C5: after a successful uuid_generate_v4 or uuid_generate_v5, out[6] >> 4 is
\* the version (4 or 5), out[8] >> 6 is 2, the low nibble of out[6] and the low
\* 6 bits of out[8] are those of the source (random bytes or digest), and the
\* other 14 bytes are the source bytes.
C5_VersionAndVariantStamped ==
    /\ (Returned("uuid_generate_v4") /\ ret = 0) => C5_Stamped(4, rand)
    /\ (Returned("uuid_generate_v5") /\ ret = 0) => C5_Stamped(5, sha_result)

\* C5 witness: a version 4 UUID made from random bytes that had every version
\* bit set and the top variant bit clear
C5_Witness ==
    /\ Returned("uuid_generate_v4")
    /\ ret = 0
    /\ rand[6] >= 240
    /\ rand[8] < 128
    /\ mem[6] \div 16 = 4

\* the C string stored at buf[k..]: the characters before the first NUL
RECURSIVE CString(_, _)
CString(buf, k) ==
    IF k \notin DOMAIN buf \/ buf[k] = 0 THEN <<>> ELSE <<buf[k]>> \o CString(buf, k + 1)

\* the string uuid_to_string produces for each UUID
C6_Text == [v \in UuidValues |-> CString(uuid_to_string_store(v, Blank(0)), 0)]

\* C6: for every UUID v, uuid_to_string(v) succeeds, and uuid_from_string on
\* the string it produced succeeds and yields v.
C6_RoundTrip ==
    /\ (Returned("uuid_to_string") /\ ~uuid_arg_null /\ ~out_null) => ret = 0
    /\ (Returned("uuid_from_string") /\ ~input_null /\ ~out_null) =>
          \A v \in UuidValues : input = C6_Text[v] => (ret = 0 /\ SameUuid(mem, v))

\* C6 witness: the string uuid_to_string makes of the first test UUID has been
\* parsed back into it
C6_Witness ==
    /\ Returned("uuid_from_string")
    /\ ret = 0
    /\ input = C6_Text[first_uuid_v4]
    /\ SameUuid(mem, first_uuid_v4)

\* the 4/2/2/8 byte-group reversal as a table of indices
C7_Order == <<3, 2, 1, 0, 5, 4, 7, 6, 8, 9, 10, 11, 12, 13, 14, 15>>

\* a 16-byte buffer with its first three groups reversed
C7_Swapped(b) == [i \in UuidIdx |-> b[C7_Order[i + 1]]]

\* C7: the little-endian import reverses bytes 0-3, bytes 4-5 and bytes 6-7
\* and copies bytes 8-15, so that importing a buffer big-endian and importing
\* its 4/2/2/8-swapped form little-endian give the same UUID; the last 8 bytes
\* are not reversed.
C7_LittleEndianImport ==
    /\ (Returned("uuid_from_buffer") /\ ret = 0) => SameUuid(mem, uuid_arg)
    /\ (Returned("uuid_from_buffer_le") /\ ret = 0) =>
          /\ SameUuid(mem, uuid_from_buffer_store(C7_Swapped(uuid_arg), mem0))
          /\ \A i \in 8..15 : mem[i] = uuid_arg[i]

\* C7 witness: the header's little-endian example imported to its big-endian form
C7_Witness ==
    /\ Returned("uuid_from_buffer_le")
    /\ ret = 0
    /\ uuid_arg = guid_le_example
    /\ SameUuid(mem, SampleUuid(0))

\* the digits 0123456789abcdef
C8_LowerHex == <<48, 49, 50, 51, 52, 53, 54, 55, 56, 57, 97, 98, 99, 100, 101, 102>>

\* the character of the canonical text of u at position p
C8_Expected(u, p) ==
    IF p \in {8, 13, 18, 23} THEN 45
    ELSE LET k == p - Cardinality({h \in {8, 13, 18, 23} : h < p})
             byte == u[k \div 2]
         IN  C8_LowerHex[(IF k % 2 = 0 THEN byte \div 16 ELSE byte % 16) + 1]

\* C8: uuid_to_string stores 36 characters and a terminator: '-' at positions
\* 8, 13, 18, 23 and elsewhere the lower-case hexadecimal digits of bytes
\* 0..15 in order, high nibble first; no upper-case letter is stored and
\* nothing is stored behind the terminator.
C8_CanonicalText ==
    (Returned("uuid_to_string") /\ ret = 0) =>
        /\ \A p \in 0..35 : mem[p] = C8_Expected(uuid_arg, p)
        /\ \A p \in 0..35 : mem[p] \notin 65..90
        /\ mem[36] = 0
        /\ \A i \in ArenaIdx : i > 36 => mem[i] = mem0[i]

\* C8 witness: the first test UUID formatted as the test expects
C8_Witness ==
    /\ Returned("uuid_to_string")
    /\ ret = 0
    /\ uuid_arg = first_uuid_v4
    /\ CString(mem, 0) = <<52, 52, 98, 51, 53, 102, 55, 51, 45, 99, 102, 98, 100, 45, 52, 51, 98, 52, 45, 56, 102, 101, 102, 45, 99, 97, 55, 98, 97, 101, 97, 49, 51, 55, 53, 102>>

\* the RFC 4648 base64 alphabet
C9_Alphabet == 
    <<65, 66, 67, 68, 69, 70, 71, 72, 73, 74, 75, 76, 77, 78, 79, 80, 81, 82, 83,
    84, 85, 86, 87, 88, 89, 90, 97, 98, 99, 100, 101, 102, 103, 104, 105, 106, 107,
    108, 109, 110, 111, 112, 113, 114, 115, 116, 117, 118, 119, 120, 121, 122, 48,
    49, 50, 51, 52, 53, 54, 55, 56, 57, 43, 47>>

\* bit k of the UUID read as a string of 128 bits, zero behind its end
C9_Bit(u, k) == IF k < 128 THEN (u[k \div 8] \div Pow2(7 - (k % 8))) % 2 ELSE 0

C9_Sextet(u, j) ==
    32 * C9_Bit(u, 6 * j) + 16 * C9_Bit(u, 6 * j + 1) + 8 * C9_Bit(u, 6 * j + 2)
    + 4 * C9_Bit(u, 6 * j + 3) + 2 * C9_Bit(u, 6 * j + 4) + C9_Bit(u, 6 * j + 5)

\* the 24 characters of the padded encoding of 16 bytes
C9_Standard(u) == [j \in 1..24 |-> IF j <= 22 THEN C9_Alphabet[C9_Sextet(u, j - 1) + 1] ELSE 61]

C9_UrlChar(c) == IF c = 43 THEN 45 ELSE IF c = 47 THEN 95 ELSE c

\* C9: uuid_to_base64url stores the first 22 characters of the padded RFC 4648
\* encoding of the UUID with '+' replaced by '-' and '/' by '_', then a
\* terminator at index 22; the text holds no '+', '/' or '=', and the two
\* characters left out are the '=' padding.
C9_Base64Url ==
    (Returned("uuid_to_base64url") /\ ret = 0) =>
        /\ \A j \in 0..21 : mem[j] = C9_UrlChar(C9_Standard(uuid_arg)[j + 1])
        /\ mem[22] = 0
        /\ \A j \in 0..21 : mem[j] \notin {43, 47, 61}
        /\ \A i \in ArenaIdx : i > 22 => mem[i] = mem0[i]
        /\ LET internal == CString(base64_encode([i \in 0..24 |-> 0], UUID_BASE64_LEN,
                                                 uuid_arg, UUID_SIZE), 0)
           IN  /\ internal = C9_Standard(uuid_arg)
               /\ internal[23] = 61
               /\ internal[24] = 61

\* C9 witness: the first test UUID, whose encoding holds a '+', as the test expects
C9_Witness ==
    /\ Returned("uuid_to_base64url")
    /\ ret = 0
    /\ uuid_arg = first_uuid_v4
    /\ 43 \in {C9_Standard(uuid_arg)[j] : j \in 1..24}
    /\ CString(mem, 0) = <<82, 76, 78, 102, 99, 56, 45, 57, 81, 55, 83, 80, 55, 56, 112, 55, 114, 113, 69, 51, 88, 119>>

\* the bytes the text and its terminator need
C10_Required == [o \in {"uuid_to_string", "uuid_to_base64"} |->
                    IF o = "uuid_to_string" THEN 37 ELSE 25]

\* C10: uuid_to_string and uuid_to_base64 return -EINVAL and store nothing when
\* the output buffer is NULL or smaller than the text and its terminator (37
\* and 25 bytes), and never store behind the end of the caller's buffer.
C10_RejectsUndersizedBuffer ==
    \A o \in DOMAIN C10_Required :
        Returned(o) =>
            /\ (out_null \/ cap < C10_Required[o]) => (ret = -EINVAL /\ mem = mem0)
            /\ \A i \in ArenaIdx : i >= cap => mem[i] = mem0[i]


(***************************************************************************)
(* C11: what uuid_generate_v5 hashes and what it returns                   *)
(***************************************************************************)

\* the message a version-5 UUID is the hash of: the 16 namespace bytes, then the data
C11_Message(ns, d) == Bytes(ns, UUID_SIZE) \o d

\* the UUID that depends on (namespace, data) only: the first 16 digest bytes of
\* the message, byte 6 with high nibble 5, byte 8 with top bits 10
C11_Expected(ns, d) ==
    [i \in UuidIdx |->
        LET b == Digest(C11_Message(ns, d))[i]
        IN  IF i = 6 THEN 80 + (b % 16)
            ELSE IF i = 8 THEN 128 + (b % 64)
            ELSE b]

\* what the hash has been fed at each position between starts and finish
C11_FedInOrder ==
    /\ pc = "v5_update_namespace" => fed = <<>>
    /\ pc = "v5_update_data" => fed = Bytes(uuid_arg, UUID_SIZE)
    /\ pc \in {"v5_finish", "v5_free"} => fed = C11_Message(uuid_arg, data)
    /\ pc = "v5_free" => sha_result = Digest(C11_Message(uuid_arg, data))

\* C11: on success uuid_generate_v5 has fed the hash the 16 namespace bytes and
\* then the data bytes, in that order and each once, and out holds the first 16
\* bytes of that digest stamped version 5, variant 2: a function of (namespace,
\* data) alone, whatever out held before, so equal arguments give equal output;
\* nothing beyond the 16 bytes of out is written.
C11_HashOfNamespaceThenData ==
    /\ C11_FedInOrder
    /\ (Returned("uuid_generate_v5") /\ ret = 0) =>
          /\ fed = C11_Message(uuid_arg, data)
          /\ Len(fed) = UUID_SIZE + Len(data)
          /\ sha_result = Digest(fed)
          /\ SameUuid(mem, C11_Expected(uuid_arg, data))
          /\ \A i \in ArenaIdx : i >= UUID_SIZE => mem[i] = mem0[i]

\* a successful call on the DNS namespace with three data bytes into a buffer
\* that held non-zero bytes before
C11_Witness ==
    /\ Returned("uuid_generate_v5")
    /\ ret = 0
    /\ uuid_arg = namespace_dns
    /\ Len(data) = 3
    /\ \A i \in UuidIdx : mem0[i] = 170
    /\ SameUuid(mem, C11_Expected(namespace_dns, data))


(***************************************************************************)
(* C12: the decode loop of uuid_from_string                                *)
(***************************************************************************)

\* the four positions of the canonical text that hold a hyphen
C12_HyphenPositions == {8, 13, 18, 23}

\* how many hyphen positions lie before position i
C12_HyphensBefore(i) == Cardinality({h \in C12_HyphenPositions : h < i})

\* the call got past the argument check and the validation scan
C12_PassedScan ==
    /\ op = "uuid_from_string"
    /\ ~input_null
    /\ ~out_null
    /\ strlen(input) + 1 = UUID_STR_LEN
    /\ Scan(input, 0)

\* at the head of the loop: the indices are in range and in step, and an
\* iteration that is about to convert a pair reads two hex positions, none of
\* them a hyphen position, converts them and writes a byte of the UUID
C12_AtLoopHead ==
    pc = "from_string_decode" =>
        /\ C12_PassedScan
        /\ ret = 0
        /\ input_idx \in 0..36
        /\ out_idx \in 0..16
        /\ input_idx = 2 * out_idx + C12_HyphensBefore(input_idx)
        /\ input_idx = 36 <=> out_idx = 16
        /\ (input_idx < 36 /\ input_idx \notin C12_HyphenPositions) =>
              /\ input_idx + 1 < 36
              /\ input_idx + 1 \notin C12_HyphenPositions
              /\ out_idx <= 15
              /\ isxdigit(CharAt(input, input_idx))
              /\ isxdigit(CharAt(input, input_idx + 1))
              /\ ~from_string_iteration(input, input_idx, out_idx, mem).failed
        /\ \A i \in ArenaIdx : i >= out_idx => mem[i] = mem0[i]

\* after the return: a call that passed the scan returned 0 with both indices
\* at their ends, and a call that returned an error never entered the loop
C12_AtReturn ==
    Returned("uuid_from_string") =>
        /\ C12_PassedScan => (ret = 0 /\ input_idx = 36 /\ out_idx = 16)
        /\ ret # 0 => (input_idx = 0 /\ out_idx = 0 /\ mem = mem0)

\* one pass of the loop: the exit, the skip of one hyphen position, or the
\* conversion of one pair into out[out_idx]
C12_Iteration ==
    pc = "from_string_decode" =>
        \/ /\ input_idx = 36
           /\ pc' = "done"
           /\ ret' = 0
           /\ UNCHANGED <<input_idx, out_idx, mem>>
        \/ /\ input_idx \in C12_HyphenPositions
           /\ pc' = pc
           /\ input_idx' = input_idx + 1
           /\ UNCHANGED <<out_idx, mem>>
        \/ /\ input_idx \notin C12_HyphenPositions
           /\ pc' = pc
           /\ input_idx' = input_idx + 2
           /\ out_idx' = out_idx + 1
           /\ out_idx <= 15
           /\ \A i \in ArenaIdx : i # out_idx => mem'[i] = mem[i]

\* C12: for every input that passes the validation scan the decode loop of
\* uuid_from_string ends with input_idx = 36 and out_idx = 16; each iteration
\* skips one hyphen position or converts two adjacent hex positions that are
\* not hyphen positions, writes only out[out_idx] with out_idx <= 15, and the
\* conversion never fails, so no error is returned after a partial write.
C12_DecodeLoop ==
    /\ [](C12_AtLoopHead /\ C12_AtReturn)
    /\ [][C12_Iteration]_vars

\* the loop has just converted the pair at positions 34 and 35 of an
\* upper-case text into the last byte of the UUID
C12_Witness ==
    /\ pc = "from_string_decode"
    /\ input_idx = 36
    /\ out_idx = 16
    /\ input = ToUpper(Canonical(first_uuid_v4))
    /\ SameUuid(mem, first_uuid_v4)
    /\ mem0[15] # mem[15]

====
